---------------------------- MODULE Spec2Model ----------------------------
(***************************************************************************)
(* The CSV normalisation pipeline, the prediction client and the result    *)
(* reconciler of src/src/pages/About.tsx (lines 97-702).                   *)
(*                                                                         *)
(* JavaScript values are records [t, s, neg, i, f]: t is the kind, s the   *)
(* characters of a string (a sequence of one-character strings), and a     *)
(* number is its sign, its integer part i and its fraction f in            *)
(* thousandths (-12.5 is neg, i = 12, f = 500).  A row (a JavaScript       *)
(* object) is a function from property names to values; a property that is *)
(* absent is outside its DOMAIN.                                           *)
(***************************************************************************)
EXTENDS Integers, Sequences, FiniteSets, TLC

(* ------------------------------ bounds -------------------------------- *)
\* Math.random() is drawn from { k / RndDen : k \in 0 .. RndDen-1 }.
RndDen == 4
\* A raw row of NormSpec is a base row changed in at most MaxOverrides columns.
MaxOverrides == 1
\* An uploaded file holds at most MaxRows data rows.
MaxRows == 2
\* A prediction response holds at most MaxApiTx transactions over its three buckets.
MaxApiTx == 2

(* ------------------------- JavaScript values --------------------------- *)
Undefined == [t |-> "undefined", s |-> <<>>, neg |-> FALSE, i |-> 0, f |-> 0]
NaN == [t |-> "NaN", s |-> <<>>, neg |-> FALSE, i |-> 0, f |-> 0]
Str(chars) == [t |-> "string", s |-> chars, neg |-> FALSE, i |-> 0, f |-> 0]
\* the number milli / 1000
Num(milli) ==
  LET a == IF milli < 0 THEN 0 - milli ELSE milli
  IN  [t |-> "number", s |-> <<>>, neg |-> milli < 0, i |-> a \div 1000, f |-> a % 1000]
\* the integer n
Whole(n) ==
  [t |-> "number", s |-> <<>>, neg |-> n < 0, i |-> IF n < 0 THEN 0 - n ELSE n, f |-> 0]

\* ToBoolean: "", 0, NaN and undefined are falsy.
Truthy(v) ==
  \/ v.t = "string" /\ v.s # <<>>
  \/ v.t = "number" /\ (v.i # 0 \/ v.f # 0)

\* a || b
Or(a, b) == IF Truthy(a) THEN a ELSE b

Get(row, k) == IF k \in DOMAIN row THEN row[k] ELSE Undefined
Put(row, k, v) == [x \in (DOMAIN row) \cup {k} |-> IF x = k THEN v ELSE row[x]]
Delete(row, k) == [x \in (DOMAIN row) \ {k} |-> row[x]]
\* { ...a, ...b }
Spread(a, b) == [x \in (DOMAIN a) \cup (DOMAIN b) |-> IF x \in DOMAIN b THEN b[x] ELSE a[x]]

(* ------------------------------ strings -------------------------------- *)
DigitChars == <<"0", "1", "2", "3", "4", "5", "6", "7", "8", "9">>
LowerChars == <<"a", "b", "c", "d", "e", "f", "g", "h", "i", "j", "k", "l", "m", "n", "o", "p", "q", "r", "s", "t", "u", "v", "w", "x", "y", "z">>
UpperChars == <<"A", "B", "C", "D", "E", "F", "G", "H", "I", "J", "K", "L", "M", "N", "O", "P", "Q", "R", "S", "T", "U", "V", "W", "X", "Y", "Z">>

IsDigit(c) == \E d \in 1..10 : DigitChars[d] = c
DigitVal(c) == (CHOOSE d \in 1..10 : DigitChars[d] = c) - 1

toLowerCase(s) ==
  [i \in 1..Len(s) |->
     IF \E k \in 1..26 : UpperChars[k] = s[i]
     THEN LowerChars[CHOOSE k \in 1..26 : UpperChars[k] = s[i]]
     ELSE s[i]]

toUpperCase(s) ==
  [i \in 1..Len(s) |->
     IF \E k \in 1..26 : LowerChars[k] = s[i]
     THEN UpperChars[CHOOSE k \in 1..26 : LowerChars[k] = s[i]]
     ELSE s[i]]

\* s.includes(kw)
includes(s, kw) ==
  \E i \in 0..(Len(s) - Len(kw)) : SubSeq(s, i + 1, i + Len(kw)) = kw

\* s.startsWith(p)
startsWith(s, p) == Len(s) >= Len(p) /\ SubSeq(s, 1, Len(p)) = p

\* the characters of s as one TLA+ string
RECURSIVE Join(_)
Join(s) == IF s = <<>> THEN "" ELSE s[1] \o Join(Tail(s))

\* s.replace(/[^\d]/g, '')
RECURSIVE stripNonDigits(_)
stripNonDigits(s) ==
  IF s = <<>> THEN <<>>
  ELSE IF IsDigit(s[1]) THEN <<s[1]>> \o stripNonDigits(Tail(s))
  ELSE stripNonDigits(Tail(s))

\* s.replace(/[^\d.]/g, '')
RECURSIVE stripNonDigitsDots(_)
stripNonDigitsDots(s) ==
  IF s = <<>> THEN <<>>
  ELSE IF IsDigit(s[1]) \/ s[1] = "." THEN <<s[1]>> \o stripNonDigitsDots(Tail(s))
  ELSE stripNonDigitsDots(Tail(s))

\* the length of the longest prefix of s made of digits
RECURSIVE digitRun(_)
digitRun(s) == IF s # <<>> /\ IsDigit(s[1]) THEN 1 + digitRun(Tail(s)) ELSE 0

\* the value of a sequence of digits
RECURSIVE digitsValue(_)
digitsValue(s) ==
  IF s = <<>> THEN 0 ELSE 10 * digitsValue(SubSeq(s, 1, Len(s) - 1)) + DigitVal(s[Len(s)])

\* the decimal digits of n >= 0
RECURSIVE natChars(_)
natChars(n) ==
  IF n < 10 THEN <<DigitChars[n + 1]>>
  ELSE natChars(n \div 10) \o <<DigitChars[(n % 10) + 1]>>

\* parseFloat on a string of digits and dots (what the replace before it leaves):
\* the longest prefix digits [ "." digits ] holding a digit, NaN when there is
\* none.  Fraction digits after the third are below the model's resolution.
parseFloat(s) ==
  LET ni == digitRun(s)
      rest == SubSeq(s, ni + 1, Len(s))
      nf == IF rest # <<>> /\ rest[1] = "." THEN digitRun(Tail(rest)) ELSE 0
      frac == SubSeq(rest, 2, 1 + nf) \o <<"0", "0", "0">>
  IN  IF ni + nf = 0 THEN NaN
      ELSE [t |-> "number", s |-> <<>>, neg |-> FALSE,
            i |-> digitsValue(SubSeq(s, 1, ni)), f |-> digitsValue(SubSeq(frac, 1, 3))]

\* String(v), v.toString() of a string or a number
String(v) ==
  IF v.t = "string" THEN v.s
  ELSE IF v.t = "NaN" THEN <<"N", "a", "N">>
  ELSE IF v.t = "undefined" THEN <<"u", "n", "d", "e", "f", "i", "n", "e", "d">>
  ELSE LET fr == IF v.f = 0 THEN <<>>
                 ELSE IF v.f % 100 = 0 THEN <<".">> \o natChars(v.f \div 100)
                 ELSE IF v.f % 10 = 0 THEN <<".">> \o SubSeq(natChars(100 + v.f \div 10), 2, 3)
                 ELSE <<".">> \o SubSeq(natChars(1000 + v.f), 2, 4)
       IN  (IF v.neg THEN <<"-">> ELSE <<>>) \o natChars(v.i) \o fr

\* Number(s) is a number (not NaN) for the empty string and for a decimal literal
isNumericString(s) ==
  LET u == IF s # <<>> /\ s[1] \in {"-", "+"} THEN Tail(s) ELSE s
      ni == digitRun(u)
      rest == SubSeq(u, ni + 1, Len(u))
      nf == IF rest # <<>> /\ rest[1] = "." THEN digitRun(Tail(rest)) ELSE 0
  IN  \/ s = <<>>
      \/ /\ ni + nf > 0
         /\ \/ rest = <<>>
            \/ rest[1] = "." /\ Len(rest) = 1 + nf

\* s.split(' ')[0]
RECURSIVE beforeSpace(_)
beforeSpace(s) ==
  IF s = <<>> \/ s[1] = " " THEN <<>> ELSE <<s[1]>> \o beforeSpace(Tail(s))

(* ------------------------------- dates --------------------------------- *)
\* new Date(s) for the two layouts "YYYY-MM-DD HH:MM:SS" and "YYYY-MM-DD", read
\* in a UTC environment; every other string is an Invalid Date (getTime() is NaN).
isLeap(y) == (y % 4 = 0 /\ y % 100 # 0) \/ y % 400 = 0
daysInMonth(y, mo) ==
  IF mo = 2 THEN (IF isLeap(y) THEN 29 ELSE 28)
  ELSE IF mo \in {4, 6, 9, 11} THEN 30 ELSE 31
RECURSIVE daysBeforeMonth(_, _)
daysBeforeMonth(y, mo) ==
  IF mo = 1 THEN 0 ELSE daysBeforeMonth(y, mo - 1) + daysInMonth(y, mo - 1)
leapsBefore(y) == ((y - 1) \div 4) - ((y - 1) \div 100) + ((y - 1) \div 400)
daysFromEpoch(y, mo, d) ==
  365 * (y - 1970) + leapsBefore(y) - leapsBefore(1970) + daysBeforeMonth(y, mo) + d - 1

InvalidDate == [ok |-> FALSE, y |-> 0, mo |-> 0, d |-> 0, h |-> 0, mi |-> 0, sec |-> 0]
allDigits(s, idx) == \A i \in idx : IsDigit(s[i])
newDate(s) ==
  LET hasTime == Len(s) = 19
      shape == /\ Len(s) \in {10, 19}
               /\ allDigits(s, {1, 2, 3, 4, 6, 7, 9, 10})
               /\ s[5] = "-" /\ s[8] = "-"
               /\ hasTime => /\ allDigits(s, {12, 13, 15, 16, 18, 19})
                             /\ s[11] = " " /\ s[14] = ":" /\ s[17] = ":"
      y == digitsValue(SubSeq(s, 1, 4))
      mo == digitsValue(SubSeq(s, 6, 7))
      d == digitsValue(SubSeq(s, 9, 10))
      h == IF hasTime THEN digitsValue(SubSeq(s, 12, 13)) ELSE 0
      mi == IF hasTime THEN digitsValue(SubSeq(s, 15, 16)) ELSE 0
      sec == IF hasTime THEN digitsValue(SubSeq(s, 18, 19)) ELSE 0
  IN  IF shape /\ mo \in 1..12 /\ d \in 1..daysInMonth(y, mo)
               /\ h < 24 /\ mi < 60 /\ sec < 60
      THEN [ok |-> TRUE, y |-> y, mo |-> mo, d |-> d, h |-> h, mi |-> mi, sec |-> sec]
      ELSE InvalidDate
\* Math.floor(dateObj.getTime() / 1000)
unixSeconds(dt) ==
  daysFromEpoch(dt.y, dt.mo, dt.d) * 86400 + dt.h * 3600 + dt.mi * 60 + dt.sec

(* --------------------------- the row normalizer ------------------------ *)
\* the characters of the column names the raw rows of the model use
NameChars(k) ==
  CASE k = "trans_num" -> <<"t", "r", "a", "n", "s", "_", "n", "u", "m">>
    [] k = "id" -> <<"i", "d">>
    [] k = "cc_num" -> <<"c", "c", "_", "n", "u", "m">>
    [] k = "amt" -> <<"a", "m", "t">>
    [] k = "amount" -> <<"a", "m", "o", "u", "n", "t">>
    [] k = "trans_date_trans_time" -> <<"t", "r", "a", "n", "s", "_", "d", "a", "t", "e", "_", "t", "r", "a", "n", "s", "_", "t", "i", "m", "e">>
    [] k = "unix_time" -> <<"u", "n", "i", "x", "_", "t", "i", "m", "e">>
    [] k = "category" -> <<"c", "a", "t", "e", "g", "o", "r", "y">>
    [] k = "gender" -> <<"g", "e", "n", "d", "e", "r">>
    [] k = "state" -> <<"s", "t", "a", "t", "e">>
    [] k = "age" -> <<"a", "g", "e">>
    [] k = "merchant" -> <<"m", "e", "r", "c", "h", "a", "n", "t">>
    [] k = "category_1" -> <<"c", "a", "t", "e", "g", "o", "r", "y", "_", "1">>
    [] k = "category_3" -> <<"c", "a", "t", "e", "g", "o", "r", "y", "_", "3">>
    [] k = "category_13" -> <<"c", "a", "t", "e", "g", "o", "r", "y", "_", "1", "3">>
    [] k = "state_CA" -> <<"s", "t", "a", "t", "e", "_", "C", "A">>
    [] k = "state_TX" -> <<"s", "t", "a", "t", "e", "_", "T", "X">>
    [] k = "6006" -> <<"6", "0", "0", "6">>
    [] k = "-1.5" -> <<"-", "1", ".", "5">>
    [] k = "Unnamed: 0" -> <<"U", "n", "n", "a", "m", "e", "d", ":", " ", "0">>
    [] k = "" -> <<>>

\* !isNaN(Number(key)) || key.startsWith('Unnamed')
isDroppedKey(k) ==
  isNumericString(NameChars(k)) \/ startsWith(NameChars(k), <<"U", "n", "n", "a", "m", "e", "d">>)

\* `TX-${Math.floor(1000000 + Math.random() * 9000000)}` with Math.random() = rnd / RndDen
generatedId(rnd) == <<"T", "X", "-">> \o natChars(1000000 + ((9000000 * rnd) \div RndDen))

categoryKey(i) == "category_" \o ToString(i)
categoryKeys == {categoryKey(i) : i \in 1..13}

\* MUTANT of categoryIndex: the food/dining test is made before the gas/transport test
categoryIndex_foodFirst(category) ==
  IF includes(category, <<"g", "r", "o", "c", "e", "r", "y">>) THEN 1
  ELSE IF includes(category, <<"f", "o", "o", "d">>) \/ includes(category, <<"d", "i", "n", "i", "n", "g">>) THEN 6
  ELSE IF includes(category, <<"g", "a", "s">>) \/ includes(category, <<"t", "r", "a", "n", "s", "p", "o", "r", "t">>) THEN 2
  ELSE IF includes(category, <<"e", "n", "t", "e", "r", "t", "a", "i", "n">>) THEN 3
  ELSE IF includes(category, <<"m", "i", "s", "c">>) THEN 4
  ELSE IF includes(category, <<"h", "e", "a", "l", "t", "h">>) THEN 5
  ELSE IF includes(category, <<"s", "h", "o", "p">>) THEN 7
  ELSE IF includes(category, <<"p", "e", "r", "s", "o", "n", "a", "l">>) THEN 8
  ELSE IF includes(category, <<"h", "o", "m", "e">>) THEN 9
  ELSE IF includes(category, <<"k", "i", "d", "s">>) THEN 10
  ELSE IF includes(category, <<"t", "r", "a", "v", "e", "l">>) THEN 11
  ELSE IF includes(category, <<"s", "e", "r", "v", "i", "c", "e">>) THEN 12
  ELSE 1

\* the if / else-if chain over category.includes(...): the number of the flag it sets
categoryIndex(category) ==
  IF includes(category, <<"g", "r", "o", "c", "e", "r", "y">>) THEN 1
  ELSE IF includes(category, <<"g", "a", "s">>) \/ includes(category, <<"t", "r", "a", "n", "s", "p", "o", "r", "t">>) THEN 2
  ELSE IF includes(category, <<"e", "n", "t", "e", "r", "t", "a", "i", "n">>) THEN 3
  ELSE IF includes(category, <<"m", "i", "s", "c">>) THEN 4
  ELSE IF includes(category, <<"h", "e", "a", "l", "t", "h">>) THEN 5
  ELSE IF includes(category, <<"f", "o", "o", "d">>) \/ includes(category, <<"d", "i", "n", "i", "n", "g">>) THEN 6
  ELSE IF includes(category, <<"s", "h", "o", "p">>) THEN 7
  ELSE IF includes(category, <<"p", "e", "r", "s", "o", "n", "a", "l">>) THEN 8
  ELSE IF includes(category, <<"h", "o", "m", "e">>) THEN 9
  ELSE IF includes(category, <<"k", "i", "d", "s">>) THEN 10
  ELSE IF includes(category, <<"t", "r", "a", "v", "e", "l">>) THEN 11
  ELSE IF includes(category, <<"s", "e", "r", "v", "i", "c", "e">>) THEN 12
  ELSE 1

states ==
  <<"AL", "AR", "AZ", "CA", "CO", "CT", "DC", "DE", "FL", "GA",
    "HI", "IA", "ID", "IL", "IN", "KS", "KY", "LA", "MA", "MD",
    "ME", "MI", "MN", "MO", "MS", "MT", "NC", "ND", "NE", "NH",
    "NJ", "NM", "NV", "NY", "OH", "OK", "OR", "PA", "RI", "SC",
    "SD", "TN", "TX", "UT", "VA", "VT", "WA", "WI", "WV", "WY">>
stateCodes == {states[i] : i \in 1..Len(states)}
stateKey(code) == "state_" \o code
stateKeys == {stateKey(c) : c \in stateCodes}

PutAll(row, keys, v) == [x \in (DOMAIN row) \cup keys |-> IF x \in keys THEN v ELSE row[x]]

\* lines 160-163: cc_num
fixCardNumber(row, p) ==
  IF Truthy(Get(row, "cc_num"))
  THEN Put(p, "cc_num", Str(stripNonDigits(String(row["cc_num"]))))
  ELSE p

\* lines 165-170: amt and amount
fixAmount(row, p) ==
  IF Truthy(Get(row, "amt"))
  THEN LET amt == parseFloat(stripNonDigitsDots(String(row["amt"])))
           v == IF amt.t = "NaN" THEN Whole(0) ELSE amt
       IN  Put(Put(p, "amt", v), "amount", v)
  ELSE p

\* line 174 calls .split on the raw value: a TypeError when it is a (non-zero) number
dateThrows(row) ==
  LET v == Get(row, "trans_date_trans_time") IN Truthy(v) /\ v.t # "string"

\* lines 172-195: date and the fields derived from the datetime
fixDate(row, p) ==
  LET v == Get(row, "trans_date_trans_time") IN
  IF ~Truthy(v) THEN p
  ELSE LET p1 == Put(Put(p, "date", Str(beforeSpace(v.s))), "trans_date_trans_time", v)
           dt == newDate(v.s)
           p2 == Spread(p1, [k \in {"transaction_hour", "year", "month", "day", "hour"} |->
                               CASE k = "transaction_hour" -> Whole(dt.h)
                                 [] k = "year" -> Whole(dt.y)
                                 [] k = "month" -> Whole(dt.mo)
                                 [] k = "day" -> Whole(dt.d)
                                 [] k = "hour" -> Whole(dt.h)])
       IN  IF ~dt.ok THEN p1
           ELSE IF Truthy(Get(p2, "unix_time")) THEN p2
           ELSE Put(p2, "unix_time", Whole(unixSeconds(dt)))

\* lines 197-221: the thirteen category flags
fixCategory(row, p) ==
  LET zeroed == PutAll(p, categoryKeys, Whole(0))
      v == Get(row, "category")
  IN  IF Truthy(v)
      THEN Put(zeroed, categoryKey(categoryIndex(toLowerCase(String(v)))), Whole(1))
      ELSE Put(zeroed, "category_1", Whole(1))

\* lines 223-228: gender_M
fixGender(row, p) ==
  IF Truthy(Get(row, "gender"))
  THEN Put(p, "gender_M",
           IF toUpperCase(String(row["gender"])) = <<"M">> THEN Whole(1) ELSE Whole(0))
  ELSE Put(p, "gender_M", Whole(0))

\* lines 242-256, on a row whose state flags were zeroed: the flag of a recognised
\* code, no flag for a state that is not one of the codes, state_CA without a state
setStateFlag(row, zeroed) ==
  IF Truthy(Get(row, "state"))
  THEN LET stateCode == Join(toUpperCase(String(row["state"])))
       IN  IF stateCode \in stateCodes THEN Put(zeroed, stateKey(stateCode), Whole(1)) ELSE zeroed
  ELSE IF Truthy(Get(zeroed, "state"))
  THEN LET stateCode == Join(toUpperCase(String(zeroed["state"])))
       IN  IF stateCode \in stateCodes THEN Put(zeroed, stateKey(stateCode), Whole(1)) ELSE zeroed
  ELSE Put(zeroed, "state_CA", Whole(1))

\* lines 230-256: the fifty state flags
fixState(row, p) == setStateFlag(row, PutAll(p, stateKeys, Whole(0)))

\* lines 258-261: age
fixAge(row, p) == IF ~Truthy(Get(row, "age")) THEN Put(p, "age", Whole(30)) ELSE p

\* the callback of batchData.map (lines 142-264) on one raw row, with the draw of
\* Math.random() at line 157: the normalized row, or threw when the callback raises
normalize(row, rnd) ==
  LET kept == [k \in {x \in DOMAIN row : ~isDroppedKey(x)} |-> row[k]]
      id == Or(Or(Get(row, "trans_num"), Get(row, "id")), Str(generatedId(rnd)))
      withId == Put(Put(kept, "id", id), "trans_num", id)
      withAmt == fixAmount(row, fixCardNumber(row, withId))
  IN  IF dateThrows(row) THEN [threw |-> TRUE, row |-> <<>>]
      ELSE [threw |-> FALSE,
            row |-> fixAge(row, fixState(row, fixGender(row,
                      fixCategory(row, fixDate(row, withAmt)))))]

(* ---------------------------- Math.random() ---------------------------- *)
\* The successive results of Math.random() within one step are the numerators
\* start, start + step, start + 2 * step, ... (modulo RndDen) of fractions of
\* denominator RndDen, read from a cursor that each call advances; the draws of
\* a step are all equal (step 0) or run through the fractions (step 1).
Streams == [start : 0..(RndDen - 1), step : {0, 1}]
draw(stream, cursor) == (stream.start + stream.step * (cursor - 1)) % RndDen
\* the draw rnd / RndDen as a number
drawValue(rnd) == Num((rnd * 1000) \div RndDen)

(* --------------------------- preprocessCSV ----------------------------- *)
\* line 157 calls Math.random() only when the row has neither trans_num nor id
needsId(row) == ~Truthy(Or(Get(row, "trans_num"), Get(row, "id")))

\* batchData.map (line 142): the rows of a batch normalized in order
RECURSIVE mapRows(_, _, _)
mapRows(batchData, stream, cursor) ==
  IF batchData = <<>> THEN [threw |-> FALSE, rows |-> <<>>, cursor |-> cursor]
  ELSE LET first == normalize(batchData[1], draw(stream, cursor))
           rest == mapRows(Tail(batchData), stream,
                           IF needsId(batchData[1]) THEN cursor + 1 ELSE cursor)
       IN  IF first.threw \/ rest.threw
           THEN [threw |-> TRUE, rows |-> <<>>, cursor |-> cursor]
           ELSE [threw |-> FALSE, rows |-> <<first.row>> \o rest.rows, cursor |-> rest.cursor]

CHUNK_SIZE == 10000

\* the loop over the batches (lines 134-268) from batch batchIndex on
RECURSIVE preprocessBatches(_, _, _, _, _)
preprocessBatches(data, chunkSize, batchIndex, stream, cursor) ==
  LET startIdx == batchIndex * chunkSize
      endIdx == IF startIdx + chunkSize < Len(data) THEN startIdx + chunkSize ELSE Len(data)
      processedBatch == mapRows(SubSeq(data, startIdx + 1, endIdx), stream, cursor)
      rest == preprocessBatches(data, chunkSize, batchIndex + 1, stream, processedBatch.cursor)
  IN  IF startIdx >= Len(data) THEN [threw |-> FALSE, rows |-> <<>>, cursor |-> cursor]
      ELSE IF processedBatch.threw \/ rest.threw
      THEN [threw |-> TRUE, rows |-> <<>>, cursor |-> cursor]
      ELSE [threw |-> FALSE, rows |-> processedBatch.rows \o rest.rows, cursor |-> rest.cursor]

\* preprocessCSV (lines 112-272): threw when a row's callback raises
preprocessCSV(data, stream) ==
  IF Len(data) = 0 THEN [threw |-> FALSE, rows |-> <<>>, cursor |-> 1]
  ELSE preprocessBatches(data, CHUNK_SIZE, 0, stream, 1)

(* ------------------------------ raw rows ------------------------------- *)
EmptyRow == <<>>
TypicalRow ==
  [k \in {"trans_num", "cc_num", "amt", "trans_date_trans_time", "category", "gender",
          "state", "age", "merchant", "category_3", "state_TX", "Unnamed: 0"} |->
     CASE k = "trans_num" -> Str(<<"T", "1">>)
       [] k = "cc_num" -> Str(<<"4", "5", "3", "2", "-", "1", "1", "0", "0", " ", "2", "2">>)
       [] k = "amt" -> Str(<<"1", "2", ".", "5", "0">>)
       [] k = "trans_date_trans_time" -> Str(<<"2", "0", "1", "9", "-", "0", "1", "-", "0", "2", " ", "1", "3", ":", "4", "5", ":", "1", "8">>)
       [] k = "category" -> Str(<<"g", "r", "o", "c", "e", "r", "y", "_", "p", "o", "s">>)
       [] k = "gender" -> Str(<<"F">>)
       [] k = "state" -> Str(<<"N", "Y">>)
       [] k = "age" -> Str(<<"4", "5">>)
       [] k = "merchant" -> Str(<<"A", "c", "m", "e">>)
       [] k = "category_3" -> Str(<<"1">>)
       [] k = "state_TX" -> Str(<<"1">>)
       [] k = "Unnamed: 0" -> Str(<<"0">>)]
BaseRows == {EmptyRow, TypicalRow}

\* pieces of category names; a raw category is one piece or two pieces joined
CategoryPieces ==
  {<<"g", "r", "o", "c", "e", "r", "y">>, <<"G", "A", "S">>, <<"g", "a", "s", "_", "t", "r", "a", "n", "s", "p", "o", "r", "t">>, <<"E", "n", "t", "e", "r", "t", "a", "i", "n", "m", "e", "n", "t">>, <<"m", "i", "s", "c", "_", "n", "e", "t">>,
   <<"h", "e", "a", "l", "t", "h", "_", "f", "i", "t", "n", "e", "s", "s">>, <<"F", "a", "s", "t", " ", "F", "o", "o", "d", " ">>, <<"D", "i", "n", "i", "n", "g">>, <<"s", "h", "o", "p", "p", "i", "n", "g", "_", "p", "o", "s">>, <<"p", "e", "r", "s", "o", "n", "a", "l", "_", "c", "a", "r", "e">>,
   <<"h", "o", "m", "e">>, <<"k", "i", "d", "s", "_", "p", "e", "t", "s">>, <<"T", "r", "a", "v", "e", "l">>, <<"s", "e", "r", "v", "i", "c", "e">>, <<"x", "y", "z">>, <<"g", "r", "o">>, <<"c", "e", "r", "y">>,
   <<"F", "a", "s", "t", " ", "F", "o", "o", "d", " ", "D", "i", "n", "i", "n", "g">>}
JoinedPieces == {<<"g", "r", "o">>, <<"c", "e", "r", "y">>, <<"T", "r", "a", "v", "e", "l">>, <<"h", "o", "m", "e">>, <<"D", "i", "n", "i", "n", "g">>, <<"x", "y", "z">>, <<"G", "A", "S">>}

RawColumns ==
  {"trans_num", "id", "cc_num", "amt", "amount", "trans_date_trans_time", "unix_time",
   "category", "gender", "state", "age", "category_1", "category_13", "state_CA",
   "6006", "-1.5", ""}

\* the values a column takes in the raw rows; Undefined stands for "no such column"
ColumnValues(c) ==
  CASE c = "trans_num" -> {Undefined, Str(<<"T", "2">>)}
    [] c = "id" -> {Undefined, Str(<<"A", "7">>), Whole(7)}
    [] c = "cc_num" -> {Undefined, Str(<<"4", "5", "3", "2", " ", "9", "9">>), Whole(453299)}
    [] c = "amt" -> {Undefined, Str(<<>>), Str(<<"1", ",", "2", "3", "4", ".", "5", "6", "a", "b", "c">>), Str(<<"g", "a", "r", "b", "a", "g", "e">>),
                     Str(<<"0">>), Str(<<"$", "-", "5", ".", "0", "0">>), Str(<<"1", ".", "2", ".", "3">>), Str(<<".">>),
                     Str(<<".", "5">>), Whole(0), Num(12500), Whole(0 - 5)}
    [] c = "amount" -> {Str(<<"9", "9">>)}
    [] c = "trans_date_trans_time" ->
         {Undefined, Str(<<>>), Str(<<"2", "0", "2", "0", "-", "0", "2", "-", "2", "9", " ", "0", "0", ":", "0", "0", ":", "1", "8">>), Str(<<"2", "0", "1", "9", "-", "0", "3", "-", "1", "5">>),
          Str(<<"n", "o", "t", " ", "a", " ", "d", "a", "t", "e">>), Whole(2019)}
    [] c = "unix_time" -> {Str(<<"5">>)}
    [] c = "category" ->
         {Undefined, Str(<<>>), Whole(5)} \cup {Str(p) : p \in CategoryPieces}
           \cup {Str(p \o q) : p \in JoinedPieces, q \in JoinedPieces}
    [] c = "gender" -> {Undefined, Str(<<>>), Str(<<"M">>), Str(<<"m">>), Str(<<"M", "a", "l", "e">>), Whole(1)}
    [] c = "state" -> {Undefined, Str(<<>>), Str(<<"C", "A">>), Str(<<"n", "y">>), Str(<<"z", "z">>),
                       Str(<<"T", "x">>), Str(<<"D", "C">>), Str(<<"A", "K">>), Str(<<"c", "a", " ">>), Whole(5), Whole(0)}
    [] c = "age" -> {Undefined, Str(<<>>), Str(<<"6", "1">>), Whole(0), Whole(61)}
    [] c = "category_1" -> {Str(<<"0">>)}
    [] c = "category_13" -> {Str(<<"1">>)}
    [] c = "state_CA" -> {Str(<<"0">>)}
    [] c = "6006" -> {Str(<<"x">>)}
    [] c = "-1.5" -> {Str(<<"x">>)}
    [] c = "" -> {Str(<<"x">>)}

Override(row, c, v) == IF v = Undefined THEN Delete(row, c) ELSE Put(row, c, v)

\* the base rows changed in at most k columns
RECURSIVE RowsWith(_)
RowsWith(k) ==
  IF k = 0 THEN BaseRows
  ELSE LET R == RowsWith(k - 1)
       IN  R \cup UNION {{Override(r, c, v) : v \in ColumnValues(c)} : r \in R, c \in RawColumns}
RawRows == RowsWith(MaxOverrides)


(* ------------------------- the result reconciler ----------------------- *)
High == Str(<<"H", "i", "g", "h">>)
Medium == Str(<<"M", "e", "d", "i", "u", "m">>)
Low == Str(<<"L", "o", "w">>)
RiskLevels == {High, Medium, Low}

\* what the clock of the browser reads: new Date().toISOString() and Date.now()
Clock == [today |-> <<"2", "0", "2", "6", "-", "1", "1", "-", "0", "4">>, seconds |-> 1793750400]

\* Math.random() > 0.7 ? "High" : Math.random() > 0.4 ? "Medium" : "Low"
\* (lines 554-555 and 571-572); the second draw is made only when the first fails
randomRiskLevel(stream, cursor) ==
  IF draw(stream, cursor) * 10 > 7 * RndDen THEN [level |-> High, cursor |-> cursor + 1]
  ELSE IF draw(stream, cursor + 1) * 10 > 4 * RndDen THEN [level |-> Medium, cursor |-> cursor + 2]
  ELSE [level |-> Low, cursor |-> cursor + 2]

\* preprocessedData.map(tx => ({...tx, fraud_probability: Math.random(), risk_level: ...}))
\* (lines 551-556 and 568-573)
RECURSIVE randomRiskRows(_, _, _)
randomRiskRows(rows, stream, cursor) ==
  IF rows = <<>> THEN <<>>
  ELSE LET risk == randomRiskLevel(stream, cursor + 1)
           tx == Put(Put(rows[1], "fraud_probability", drawValue(draw(stream, cursor))),
                     "risk_level", risk.level)
       IN  <<tx>> \o randomRiskRows(Tail(rows), stream, risk.cursor)

\* originalTransactionMap.get(txId) || {} (lines 460-467, 476): the last row stored
\* under the key; every row is stored under its id, or under its trans_num without one
mapKey(tx) ==
  IF Truthy(Get(tx, "id")) THEN tx["id"]
  ELSE IF Truthy(Get(tx, "trans_num")) THEN tx["trans_num"]
  ELSE Undefined
originalTransaction(rows, txId) ==
  LET hits == {i \in 1..Len(rows) : mapKey(rows[i]) # Undefined /\ mapKey(rows[i]) = txId}
  IN  IF hits = {} THEN <<>> ELSE rows[CHOOSE i \in hits : \A j \in hits : j <= i]

\* does enhanceTransaction draw an id for tx (line 473)
needsTxId(tx) ==
  ~Truthy(Or(Or(Get(tx, "id"), Get(tx, "trans_num")), Get(tx, "cc_num")))

\* enhanceTransaction (lines 471-489)
enhanceTransaction(rows, tx, riskLevel, defaultProb, rnd) ==
  LET txId == Or(Or(Or(Get(tx, "id"), Get(tx, "trans_num")), Get(tx, "cc_num")),
                 Str(generatedId(rnd)))
      origTx == originalTransaction(rows, txId)
      given == [k \in {"id", "merchant", "amount", "date", "fraud_probability", "risk_level"} |->
                  CASE k = "id" -> txId
                    [] k = "merchant" ->
                         Or(Or(Get(tx, "merchant"), Get(origTx, "merchant")),
                            Str(<<"U", "n", "k", "n", "o", "w", "n", " ", "M", "e", "r", "c", "h", "a", "n", "t">>))
                    [] k = "amount" ->
                         IF Get(tx, "amt").t \in {"number", "NaN"} THEN tx["amt"]
                         ELSE Or(Get(origTx, "amount"), Whole(0))
                    [] k = "date" ->
                         Or(Or(Get(tx, "date"), Get(origTx, "date")), Str(Clock.today))
                    [] k = "fraud_probability" -> Or(Get(tx, "fraud_probability"), defaultProb)
                    [] k = "risk_level" -> riskLevel]
  IN  Spread(Spread(origTx, tx), given)

\* bucket.map(tx => enhanceTransaction(tx, riskLevel, defaultProb)) (lines 492-504)
RECURSIVE enhanceBucket(_, _, _, _, _, _)
enhanceBucket(rows, bucket, riskLevel, defaultProb, stream, cursor) ==
  IF bucket = <<>> THEN [txs |-> <<>>, cursor |-> cursor]
  ELSE LET tx == enhanceTransaction(rows, bucket[1], riskLevel, defaultProb, draw(stream, cursor))
           rest == enhanceBucket(rows, Tail(bucket), riskLevel, defaultProb, stream,
                                 IF needsTxId(bucket[1]) THEN cursor + 1 ELSE cursor)
       IN  [txs |-> <<tx>> \o rest.txs, cursor |-> rest.cursor]

\* A parsed response body: null, or an object that has the properties of `has`.
BucketNames == {"highRiskTransactions", "mediumRiskTransactions", "lowRiskTransactions"}
\* prediction.<name> || []
bucketOf(prediction, name) ==
  IF name \in prediction.has THEN prediction.lists[name] ELSE <<>>

ZeroDistribution == [High |-> 0, Medium |-> 0, Low |-> 0]
\* MUTANT of riskDistributionOf: the default distribution is uniform
riskDistributionOf_uniform(prediction) ==
  IF "riskDistribution" \in prediction.has THEN prediction.riskDistribution
  ELSE [High |-> 1, Medium |-> 1, Low |-> 1]

\* prediction.riskDistribution || {High: 0, Medium: 0, Low: 0} (line 512)
riskDistributionOf(prediction) ==
  IF "riskDistribution" \in prediction.has THEN prediction.riskDistribution
  ELSE ZeroDistribution

\* the three lists highRiskTxs, medRiskTxs, lowRiskTxs and the cursor of the draws
Buckets(high, medium, low, cursor) ==
  [high |-> high, medium |-> medium, low |-> low, cursor |-> cursor]

\* lines 491-504: the three buckets of the response mapped in the order High,
\* Medium, Low, each from the cursor the one before it left
enhanceLow(rows, prediction, stream, high, med) ==
  LET low == enhanceBucket(rows, bucketOf(prediction, "lowRiskTransactions"), Low,
                           Num(200), stream, med.cursor)
  IN  Buckets(high.txs, med.txs, low.txs, low.cursor)
enhanceMedium(rows, prediction, stream, high) ==
  enhanceLow(rows, prediction, stream, high,
             enhanceBucket(rows, bucketOf(prediction, "mediumRiskTransactions"), Medium,
                           Num(500), stream, high.cursor))
enhanceBuckets(rows, prediction, stream) ==
  enhanceMedium(rows, prediction, stream,
                enhanceBucket(rows, bucketOf(prediction, "highRiskTransactions"), High,
                              Num(800), stream, 1))

\* the forEach of lines 516-540: every row goes to one bucket by comparing a draw
\* with the cumulative thresholds High/total and (High+Medium)/total
RECURSIVE simulateRisk(_, _, _, _)
simulateRisk(rows, riskDist, buckets, stream) ==
  IF rows = <<>> THEN buckets
  ELSE LET sum == riskDist.High + riskDist.Medium + riskDist.Low
           totalRisk == IF sum # 0 THEN sum ELSE 1
           rnd == draw(stream, buckets.cursor)
           p == draw(stream, buckets.cursor + 1)
       IN  simulateRisk(Tail(rows), riskDist,
             IF rnd * totalRisk < riskDist.High * RndDen
             THEN [buckets EXCEPT !.cursor = @ + 2, !.high = Append(@,
                     Put(Put(rows[1], "fraud_probability", Num(700 + ((p * 300) \div RndDen))),
                         "risk_level", High))]
             ELSE IF rnd * totalRisk < (riskDist.High + riskDist.Medium) * RndDen
             THEN [buckets EXCEPT !.cursor = @ + 2, !.medium = Append(@,
                     Put(Put(rows[1], "fraud_probability", Num(400 + ((p * 300) \div RndDen))),
                         "risk_level", Medium))]
             ELSE [buckets EXCEPT !.cursor = @ + 2, !.low = Append(@,
                     Put(Put(rows[1], "fraud_probability", Num((p * 400) \div RndDen)),
                         "risk_level", Low))],
             stream)

\* lines 506-541: when the response holds no transaction the rows are classified
\* by the simulation
fillBuckets(rows, prediction, api, stream) ==
  IF Len(api.high) = 0 /\ Len(api.medium) = 0 /\ Len(api.low) = 0
  THEN simulateRisk(rows, riskDistributionOf(prediction), api, stream)
  ELSE api

\* MUTANT of returnTransactions: the buckets are concatenated from Low to High
returnTransactions_lowFirst(rows, buckets, stream) ==
  IF Len(buckets.high \o buckets.medium \o buckets.low) = 0
  THEN [line |-> 558, txs |-> randomRiskRows(rows, stream, buckets.cursor)]
  ELSE [line |-> 561, txs |-> buckets.low \o buckets.medium \o buckets.high]

\* MUTANT of returnTransactions: the low-risk bucket is left out of the result
returnTransactions_dropsLow(rows, buckets, stream) ==
  IF Len(buckets.high \o buckets.medium) = 0
  THEN [line |-> 558, txs |-> randomRiskRows(rows, stream, buckets.cursor)]
  ELSE [line |-> 561, txs |-> buckets.high \o buckets.medium]

\* lines 543-561: the buckets concatenated, or the fallback when they are all empty
returnTransactions(rows, buckets, stream) ==
  IF Len(buckets.high \o buckets.medium \o buckets.low) = 0
  THEN [line |-> 558, txs |-> randomRiskRows(rows, stream, buckets.cursor)]
  ELSE [line |-> 561, txs |-> buckets.high \o buckets.medium \o buckets.low]

\* lines 459-561 on a prediction that is an object: the transactions returned and
\* the line of the return statement
reconcile(rows, prediction, stream) ==
  returnTransactions(rows,
                     fillBuckets(rows, prediction, enhanceBuckets(rows, prediction, stream),
                                 stream),
                     stream)

(* ----------------------- generateMockTransactions ---------------------- *)
merchants ==
  <<<<"A", "m", "a", "z", "o", "n">>, <<"W", "a", "l", "m", "a", "r", "t">>, <<"T", "a", "r", "g", "e", "t">>, <<"B", "e", "s", "t", " ", "B", "u", "y">>, <<"A", "p", "p", "l", "e", " ", "S", "t", "o", "r", "e">>,
    <<"G", "a", "s", " ", "S", "t", "a", "t", "i", "o", "n">>, <<"R", "e", "s", "t", "a", "u", "r", "a", "n", "t">>, <<"H", "o", "t", "e", "l">>, <<"A", "i", "r", "l", "i", "n", "e", "s">>, <<"O", "n", "l", "i", "n", "e", " ", "S", "e", "r", "v", "i", "c", "e">>>>
riskLevels == <<Low, Medium, High>>

\* the first n digits of the quotient num / den, which has one digit before the point
RECURSIVE quotientDigits(_, _, _)
quotientDigits(num, den, n) ==
  IF n = 0 THEN <<>>
  ELSE <<DigitChars[(num \div den) + 1]>> \o quotientDigits((num % den) * 10, den, n - 1)

\* `4532${Math.floor(1000000000000000 + Math.random() * 9000000000000000)}`.substring(0, 16)
mockCardNumber(rnd) == <<"4", "5", "3", "2">> \o quotientDigits(RndDen + 9 * rnd, RndDen, 12)

\* Math.round(Math.random() * 1000 * 100) / 100
mockAmount(rnd) ==
  LET cents == (200000 * rnd + RndDen) \div (2 * RndDen)
  IN  [t |-> "number", s |-> <<>>, neg |-> FALSE, i |-> cents \div 100, f |-> (cents % 100) * 10]

\* the body of the loop of lines 679-699 for index i, the draws taken from cursor on
mockTransaction(i, stream, cursor) ==
  LET riskLevel == riskLevels[((draw(stream, cursor) * 3) \div RndDen) + 1]
      p == draw(stream, cursor + 1)
      fraudProbability ==
        IF riskLevel = High THEN Num(((p * 300) \div RndDen) + 700)
        ELSE IF riskLevel = Medium THEN Num(((p * 300) \div RndDen) + 400)
        ELSE Num((p * 400) \div RndDen)
  IN  [k \in {"id", "cc_num", "amount", "amt", "date", "unix_time", "merchant",
              "category_1", "risk_level", "fraud_probability"} |->
         CASE k = "id" -> Str(<<"T", "X", "-">> \o natChars(1000 + i))
           [] k = "cc_num" -> Str(mockCardNumber(draw(stream, cursor + 2)))
           [] k = "amount" -> mockAmount(draw(stream, cursor + 3))
           [] k = "amt" -> mockAmount(draw(stream, cursor + 4))
           [] k = "date" -> Str(Clock.today)
           [] k = "unix_time" -> Whole(Clock.seconds)
           [] k = "merchant" -> Str(merchants[((draw(stream, cursor + 5) * 10) \div RndDen) + 1])
           [] k = "category_1" -> Str(merchants[((draw(stream, cursor + 6) * 10) \div RndDen) + 1])
           [] k = "risk_level" -> riskLevel
           [] k = "fraud_probability" -> fraudProbability]

\* generateMockTransactions (lines 670-702)
generateMockTransactions(count, stream) ==
  [n \in 1..count |-> mockTransaction(n - 1, stream, 7 * (n - 1) + 1)]

(* ------------------------ calculateRiskDistribution -------------------- *)
\* lines 628-645: the entries of riskCounts in the order Low, Medium, High
calculateRiskDistribution(transactions) ==
  [n \in 1..3 |->
     [name |-> riskLevels[n],
      value |-> Cardinality({i \in 1..Len(transactions) :
                                Get(transactions[i], "risk_level") = riskLevels[n]})]]

(* --------------------------- uploaded files ---------------------------- *)
\* rows as the CSV parser delivers them: every value is a string
MinimalRow == [k \in {"amt", "merchant"} |->
                 CASE k = "amt" -> Str(<<"1", ",", "2", "3", "4", ".", "5", "6">>) [] k = "merchant" -> Str(<<"C", "o", "r", "n", "e", "r">>)]
FileRows == {TypicalRow, MinimalRow}

RECURSIVE SeqsUpTo(_, _)
SeqsUpTo(S, n) ==
  IF n = 0 THEN {<<>>}
  ELSE LET shorter == SeqsUpTo(S, n - 1)
       IN  shorter \cup {Append(q, x) : q \in shorter, x \in S}

NoFile == [exists |-> FALSE, rows |-> <<>>]
Files == {NoFile} \cup {[exists |-> TRUE, rows |-> r] : r \in SeqsUpTo(FileRows, MaxRows)}

(* ------------------------- prediction responses ------------------------ *)
ApiTxs ==
  { [k \in {"id", "fraud_probability", "merchant", "amt", "risk_level"} |->
       CASE k = "id" -> Str(<<"T", "1">>)
         [] k = "fraud_probability" -> Num(930)
         [] k = "merchant" -> Str(<<"A", "p", "i", "S", "h", "o", "p">>)
         [] k = "amt" -> Num(99500)
         [] k = "risk_level" -> Low],
    [k \in {"trans_num"} |-> Str(<<"T", "1">>)],
    <<>> }

Distributions ==
  { [High |-> 100, Medium |-> 0, Low |-> 0], [High |-> 1, Medium |-> 1, Low |-> 2],
    ZeroDistribution }

NoLists == [b \in BucketNames |-> <<>>]
NullBody == [kind |-> "null", has |-> {}, lists |-> NoLists, riskDistribution |-> ZeroDistribution]

\* the ways of putting at most n transactions into the three buckets
RECURSIVE BucketFillings(_)
BucketFillings(n) ==
  IF n = 0 THEN {NoLists}
  ELSE LET fewer == BucketFillings(n - 1)
       IN  fewer \cup {[l EXCEPT ![b] = Append(@, tx)] : l \in fewer, b \in BucketNames, tx \in ApiTxs}

\* the JSON values a 2xx response may carry
JsonBodies ==
  {NullBody}
  \cup {[kind |-> "object", has |-> {}, lists |-> NoLists, riskDistribution |-> ZeroDistribution]}
  \cup {[kind |-> "object", has |-> BucketNames, lists |-> l, riskDistribution |-> ZeroDistribution] :
          l \in BucketFillings(MaxApiTx)}
  \cup {[kind |-> "object", has |-> BucketNames \cup {"riskDistribution"}, lists |-> NoLists,
         riskDistribution |-> d] : d \in Distributions}

NoBody == [json |-> FALSE, text |-> "", data |-> NullBody]
\* what the server sends: a status and a body that is JSON or plain text
Responses ==
  {[status |-> 200, statusText |-> "OK", body |-> [json |-> TRUE, text |-> "", data |-> d]] :
     d \in JsonBodies}
  \cup {[status |-> 200, statusText |-> "OK", body |-> [json |-> FALSE, text |-> t, data |-> NullBody]] :
          t \in {"", "<html>"}}
  \cup {[status |-> 500, statusText |-> "Internal Server Error",
         body |-> [json |-> FALSE, text |-> t, data |-> NullBody]] : t \in {"", "model not loaded"}}
NoResponse == [status |-> 0, statusText |-> "", body |-> NoBody]

(* ------------------------------- messages ------------------------------ *)
TimeoutMessage ==
  "Request timeout: The cloud server is taking too long to process your file. This might be due to first-time container startup. Please try again in a moment."
InvalidResponseMessage == "Invalid response format from server"
EmptyFileMessage == "Invalid or empty file"
\* errors are records of the name and the message of the exception
Error(name, message) == [name |-> name, message |-> message]
\* what fetch rejects with when the network fails, and when its signal is aborted
NetworkError == Error("TypeError", "Failed to fetch")
AbortError == Error("AbortError", "signal is aborted without reason")
\* reading file.name of an undefined file (line 412)
NoFileError == Error("TypeError", "Cannot read properties of undefined (reading 'name')")
\* reading prediction.highRiskTransactions of null (line 492)
NullPredictionError ==
  Error("TypeError", "Cannot read properties of null (reading 'highRiskTransactions')")
\* calling .split on a number (line 174)
SplitError == Error("TypeError", "row.trans_date_trans_time.split is not a function")
\* the FileReader error the parser hands to its error callback
ReadError == Error("NotReadableError", "The requested file could not be read")
\* `Server error: ${response.status} - ${errorText || response.statusText}` (line 381)
serverErrorMessage(status, errorText, statusText) ==
  "Server error: " \o ToString(status) \o " - " \o (IF errorText # "" THEN errorText ELSE statusText)

NoError == [present |-> FALSE, message |-> "", statusCode |-> 0]
ApiError(message, statusCode) == [present |-> TRUE, message |-> message, statusCode |-> statusCode]

VARIABLES
  rawRow,            \* NormSpec: the raw row handed to the normalizer
  normPc,            \* NormSpec: "input" before the normalizer ran, "done" after
  normOut,           \* NormSpec: what the normalizer produced
  pc,                \* where the call of processTransactions stands
  file,              \* the uploaded file: the rows the CSV parser will find in it
  results,           \* processCSV: the rows the chunks delivered so far
  preprocessedData,  \* the normalized rows processCSV resolved with
  timer,             \* the timer of predictTransaction: "unset", "armed", "cleared", "fired"
  response,          \* the response fetch resolved with
  predicted,         \* the promise of predictTransaction: state, value, message
  outcome,           \* the promise of processTransactions: "pending", "resolved", "rejected"
  returned,          \* what processTransactions resolved with, and the line of the return
  rowsInFile,        \* CsvSpec: the number of data rows of the file processCSV parses
  resultsLength,     \* CsvSpec: results.length
  csvPc,             \* CsvSpec: the promise of processCSV: "csv", "resolved", "rejected"
  args,              \* the specifications of one function: the arguments of the call
  result,            \* the specifications of one function: what the call returned
  fnPc               \* the specifications of one function: "call" before, "done" after

normVars == <<rawRow, normPc, normOut>>
callVars == <<pc, file, results, preprocessedData, timer, response, predicted, outcome, returned>>
csvVars == <<rowsInFile, resultsLength, csvPc>>
fnVars == <<args, result, fnPc>>
vars == <<rawRow, normPc, normOut, pc, file, results, preprocessedData, timer, response,
          predicted, outcome, returned, rowsInFile, resultsLength, csvPc, args, result, fnPc>>

NoOutput == [threw |-> FALSE, row |-> <<>>]
NotPredicted == [state |-> "none", value |-> NullBody, message |-> ""]
NotReturned == [line |-> 0, processedTransactions |-> <<>>, error |-> NoError]

NormIdle == rawRow = EmptyRow /\ normPc = "idle" /\ normOut = NoOutput
CsvIdle == rowsInFile = 0 /\ resultsLength = 0 /\ csvPc = "idle"
FnIdle == args = <<>> /\ result = <<>> /\ fnPc = "idle"

Init ==
  /\ NormIdle
  /\ CsvIdle
  /\ FnIdle
  /\ pc = "start"
  /\ file \in Files
  /\ results = <<>>
  /\ preprocessedData = <<>>
  /\ timer = "unset"
  /\ response = NoResponse
  /\ predicted = NotPredicted
  /\ outcome = "pending"
  /\ returned = NotReturned

(* --------------------------- processTransactions ----------------------- *)
USE_DEMO_DATA_ON_ERROR == TRUE
ROW_LIMIT == 100000
MOCK_COUNT == 50

\* a return statement of processTransactions: the promise resolves
Return(line, processedTransactions, error) ==
  /\ outcome' = "resolved"
  /\ returned' = [line |-> line, processedTransactions |-> processedTransactions,
                  error |-> error]
  /\ pc' = "done"

\* lines 558 and 561: the reconciled transactions are returned without an error
ReturnReconciled(r) == Return(r.line, r.txs, NoError)

\* the catch of lines 592-601
catchCsvError(csvError) ==
  Return(594, <<>>,
         ApiError("Invalid CSV format for Spark/Dask processing: " \o csvError.message, 400))

\* MUTANT of catchPredictionError: the catch lets the error escape to the caller
catchPredictionError_rethrows(error, rows, stream) ==
  /\ outcome' = "rejected"
  /\ returned' = returned
  /\ pc' = "done"

\* the catch of lines 562-591
catchPredictionError(error, rows, stream) ==
  IF USE_DEMO_DATA_ON_ERROR
  THEN Return(575, randomRiskRows(rows, stream, 1),
              ApiError("Apache Spark cluster error: " \o error.message
                         \o ". Using Dask for local processing with simulated fraud probabilities.",
                       500))
  ELSE Return(584, <<>>,
              ApiError("Apache Spark backend service error: " \o error.message
                         \o ". Please try again or use the demo data option.", 500))

\* the catch of lines 602-624
catchGeneralError(error, stream) ==
  IF USE_DEMO_DATA_ON_ERROR
  THEN Return(608, generateMockTransactions(MOCK_COUNT, stream),
              ApiError("Error with Spark cluster: " \o error.message
                         \o ". Using Dask-powered demo data instead.", 500))
  ELSE Return(617, <<>>,
              ApiError("Error in Spark/Dask distributed processing pipeline: " \o error.message
                         \o ". Please try again or use the demo data option.", 500))

\* MUTANT of catchFetchError: the abort of the timer is rethrown as it came
catchFetchError_rethrows(error) == error

\* the catch of predictTransaction (lines 394-404): the error it rejects with
catchFetchError(error) ==
  IF error.name = "AbortError" THEN Error("Error", TimeoutMessage) ELSE error

\* MUTANT of parseJson: the error of response.json() is rethrown as it came
parseJson_rethrows(body) ==
  IF body.json THEN [ok |-> TRUE, data |-> body.data, error |-> Error("", "")]
  ELSE [ok |-> FALSE, data |-> NullBody,
        error |-> Error("SyntaxError", "Unexpected token < in JSON at position 0")]

\* lines 386-393: response.json() yields the parsed body whatever its structure; a
\* body that is not JSON makes it throw, and the catch throws the invalid-response error
parseJson(body) ==
  IF body.json THEN [ok |-> TRUE, data |-> body.data, error |-> Error("", "")]
  ELSE [ok |-> FALSE, data |-> NullBody, error |-> Error("Error", InvalidResponseMessage)]

\* predictTransaction rejects; processTransactions catches the rejection at line 562
PredictionRejects(error) ==
  /\ predicted' = [state |-> "rejected", value |-> NullBody,
                   message |-> catchFetchError(error).message]
  /\ \E stream \in Streams : catchPredictionError(catchFetchError(error), preprocessedData, stream)

\* line 299: the rows read so far exceed the limit, and the chunk callback aborts
limitExceeded(length) == length > ROW_LIMIT

\* lines 411-417: the call starts the CSV parser, or fails on a file that is undefined
Start ==
  /\ pc = "start"
  /\ IF file.exists
     THEN pc' = "csv" /\ UNCHANGED <<outcome, returned>>
     ELSE \E stream \in Streams : catchGeneralError(NoFileError, stream)
  /\ UNCHANGED <<file, results, preprocessedData, timer, response, predicted, normVars, csvVars, fnVars>>

\* the chunk callback (lines 286-303) on the next n rows, followed, after the last
\* chunk or parser.abort(), by the complete callback (lines 304-317) and by lines
\* 418-448 of processTransactions, which start the verification parse
ParseChunk ==
  /\ pc = "csv"
  /\ \E n \in (IF Len(results) = Len(file.rows) THEN {0} ELSE 1..(Len(file.rows) - Len(results))),
        stream \in Streams :
       LET rows == results \o SubSeq(file.rows, Len(results) + 1, Len(results) + n)
           finished == limitExceeded(Len(rows)) \/ Len(rows) = Len(file.rows)
           preprocessed == preprocessCSV(rows, stream)
       IN  /\ results' = rows
           /\ IF ~finished
              THEN pc' = "csv" /\ UNCHANGED <<preprocessedData, outcome, returned>>
              ELSE IF preprocessed.threw
              THEN catchCsvError(SplitError) /\ UNCHANGED preprocessedData
              ELSE /\ preprocessedData' = preprocessed.rows
                   /\ pc' = "verify"
                   /\ UNCHANGED <<outcome, returned>>
  /\ UNCHANGED <<file, timer, response, predicted, normVars, csvVars, fnVars>>

\* the error callback (lines 318-321): processCSV rejects
ParseError ==
  /\ pc = "csv"
  /\ catchCsvError(ReadError)
  /\ UNCHANGED <<file, results, preprocessedData, timer, response, predicted, normVars, csvVars, fnVars>>

\* the complete callback of the verification parse (lines 443-446), then lines
\* 449-456 and predictTransaction up to its fetch (lines 326-366)
VerifyComplete ==
  /\ pc = "verify"
  /\ IF preprocessedData = <<>>
     THEN /\ timer' = "cleared"
          /\ PredictionRejects(Error("Error", EmptyFileMessage))
     ELSE /\ timer' = "armed"
          /\ predicted' = [state |-> "pending", value |-> NullBody, message |-> ""]
          /\ pc' = "fetch"
          /\ UNCHANGED <<outcome, returned>>
  /\ UNCHANGED <<file, results, preprocessedData, response, normVars, csvVars, fnVars>>

\* the verification parse reports an error: line 440 passes no error callback, so
\* the promise of line 439 never settles
VerifyFails ==
  /\ pc = "verify"
  /\ pc' = "stalled"
  /\ UNCHANGED <<file, results, preprocessedData, timer, response, predicted, outcome,
                 returned, normVars, csvVars, fnVars>>

\* fetch resolves with the status line and headers of the response (lines 359-382)
FetchResponds ==
  /\ pc = "fetch"
  /\ \E r \in Responses :
       /\ response' = r
       /\ pc' = IF r.status \in 200..299 THEN "json" ELSE "text"
  /\ timer' = "cleared"
  /\ UNCHANGED <<file, results, preprocessedData, predicted, outcome, returned, normVars, csvVars, fnVars>>

\* fetch rejects with a network error
FetchFails ==
  /\ pc = "fetch"
  /\ timer' = "cleared"
  /\ PredictionRejects(NetworkError)
  /\ UNCHANGED <<file, results, preprocessedData, response, normVars, csvVars, fnVars>>

\* the callback of setTimeout (line 329): controller.abort() makes fetch reject
TimerFires ==
  /\ timer = "armed"
  /\ timer' = "fired"
  /\ PredictionRejects(AbortError)
  /\ UNCHANGED <<file, results, preprocessedData, response, normVars, csvVars, fnVars>>

\* response.text() of a non-2xx response resolves (lines 376, 380-381)
ReadErrorText ==
  /\ pc = "text"
  /\ PredictionRejects(Error("Error",
       serverErrorMessage(response.status, response.body.text, response.statusText)))
  /\ UNCHANGED <<file, results, preprocessedData, timer, response, normVars, csvVars, fnVars>>

\* response.text() rejects (lines 377-379)
ErrorTextFails ==
  /\ pc = "text"
  /\ PredictionRejects(Error("Error",
       serverErrorMessage(response.status, "Could not retrieve error details",
                          response.statusText)))
  /\ UNCHANGED <<file, results, preprocessedData, timer, response, normVars, csvVars, fnVars>>

\* response.json() settles (lines 386-393); on a parsed body predictTransaction
\* returns it and processTransactions reconciles it (lines 457-561)
ReadJson ==
  /\ pc = "json"
  /\ IF ~parseJson(response.body).ok
     THEN PredictionRejects(parseJson(response.body).error)
     ELSE /\ predicted' = [state |-> "fulfilled", value |-> parseJson(response.body).data,
                           message |-> ""]
          /\ \E stream \in Streams :
               IF parseJson(response.body).data.kind = "null"
               THEN catchPredictionError(NullPredictionError, preprocessedData, stream)
               ELSE ReturnReconciled(reconcile(preprocessedData,
                                               parseJson(response.body).data, stream))
  /\ UNCHANGED <<file, results, preprocessedData, timer, response, normVars, csvVars, fnVars>>

Next ==
  \/ Start
  \/ ParseChunk
  \/ ParseError
  \/ VerifyComplete
  \/ VerifyFails
  \/ FetchResponds
  \/ FetchFails
  \/ TimerFires
  \/ ReadErrorText
  \/ ErrorTextFails
  \/ ReadJson

Spec == Init /\ [][Next]_vars

\* The browser runs what is ready: the call starts, the parser ends each parse by
\* one of its callbacks, and an armed timer fires.  Nothing obliges the server to
\* answer or to finish a body.
FairSpec ==
  /\ Spec
  /\ WF_vars(Start)
  /\ WF_vars(ParseError \/ ParseChunk)
  /\ WF_vars(VerifyComplete \/ VerifyFails)
  /\ WF_vars(TimerFires)

(* ------------------------------- NormSpec ------------------------------ *)
CallIdle ==
  /\ pc = "idle"
  /\ file = NoFile
  /\ results = <<>>
  /\ preprocessedData = <<>>
  /\ timer = "unset"
  /\ response = NoResponse
  /\ predicted = NotPredicted
  /\ outcome = "pending"
  /\ returned = NotReturned

NormInit ==
  /\ rawRow \in RawRows
  /\ normPc = "input"
  /\ normOut = NoOutput
  /\ CallIdle
  /\ CsvIdle
  /\ FnIdle

\* one call of the map callback of preprocessCSV on rawRow
Normalize ==
  /\ normPc = "input"
  /\ \E rnd \in 0..(RndDen - 1) : normOut' = normalize(rawRow, rnd)
  /\ normPc' = "done"
  /\ UNCHANGED <<rawRow, callVars, csvVars, fnVars>>

NormNext == Normalize
NormSpec == NormInit /\ [][NormNext]_vars

(* ------------------------------- CsvSpec ------------------------------- *)
\* processCSV (lines 274-324) by the number of rows alone: files of no row, of
\* about ROW_LIMIT rows and of one and a half times as many, which the parser
\* delivers in chunks of a whole fraction of the limit, of one row less than
\* the limit, or of all the rows that remain
MaxExcess == 2
MaxSplit == 5
FileLengths ==
  {0} \cup ((ROW_LIMIT - MaxExcess)..(ROW_LIMIT + MaxExcess)) \cup {ROW_LIMIT + (ROW_LIMIT \div 2)}
ChunkLengths == {ROW_LIMIT \div k : k \in 1..MaxSplit} \cup {ROW_LIMIT - 1}

CsvInit ==
  /\ rowsInFile \in FileLengths
  /\ resultsLength = 0
  /\ csvPc = "csv"
  /\ NormIdle
  /\ CallIdle
  /\ FnIdle

\* the chunk callback (lines 286-303) on a chunk of n rows: the rows are pushed
\* (line 296) and then counted (line 299); after the last chunk, or within
\* parser.abort(), the complete callback (lines 304-317) resolves with the
\* rows pushed, or rejects when preprocessCSV throws on one of them
CsvChunk ==
  /\ csvPc = "csv"
  /\ \E n \in ChunkLengths \cup {rowsInFile - resultsLength}, threw \in BOOLEAN :
       /\ n <= rowsInFile - resultsLength
       /\ resultsLength' = resultsLength + n
       /\ csvPc' = IF ~(limitExceeded(resultsLength + n) \/ resultsLength + n = rowsInFile)
                   THEN "csv"
                   ELSE IF threw /\ resultsLength + n > 0 THEN "rejected" ELSE "resolved"
  /\ UNCHANGED <<rowsInFile, normVars, callVars, fnVars>>

\* the error callback (lines 318-321)
CsvError ==
  /\ csvPc = "csv"
  /\ csvPc' = "rejected"
  /\ UNCHANGED <<rowsInFile, resultsLength, normVars, callVars, fnVars>>

CsvNext == CsvChunk \/ CsvError
CsvSpec == CsvInit /\ [][CsvNext]_vars

(* ------------------- getTopTransactionsByRiskLevel --------------------- *)
\* a number in thousandths
thousandths(v) == (IF v.neg THEN -1 ELSE 1) * (v.i * 1000 + v.f)

\* MUTANT of compareProbability: the comparator sorts by ascending probability
compareProbability_ascending(a, b) ==
  thousandths(a["fraud_probability"]) - thousandths(b["fraud_probability"])

\* the comparator of line 665: b.fraud_probability - a.fraud_probability
compareProbability(a, b) ==
  thousandths(b["fraud_probability"]) - thousandths(a["fraud_probability"])

\* .filter(tx => tx.risk_level === riskLevel) (line 664): a new array
RECURSIVE filterByRiskLevel(_, _)
filterByRiskLevel(transactions, riskLevel) ==
  IF transactions = <<>> THEN <<>>
  ELSE (IF transactions[1]["risk_level"] = riskLevel THEN <<transactions[1]>> ELSE <<>>)
       \o filterByRiskLevel(Tail(transactions), riskLevel)

\* tx put into a sorted array behind every element the comparator does not
\* order after it
RECURSIVE insertSorted(_, _)
insertSorted(sorted, tx) ==
  IF sorted = <<>> THEN <<tx>>
  ELSE IF compareProbability(sorted[1], tx) <= 0
       THEN <<sorted[1]>> \o insertSorted(Tail(sorted), tx)
       ELSE <<tx>> \o sorted

\* .sort(comparator) (line 665): the stable sort of the array by the comparator
RECURSIVE sort(_)
sort(array) ==
  IF array = <<>> THEN <<>>
  ELSE insertSorted(sort(SubSeq(array, 1, Len(array) - 1)), array[Len(array)])

\* .slice(0, limit) (line 666) for limit >= 0
slice(array, limit) == SubSeq(array, 1, IF limit < Len(array) THEN limit ELSE Len(array))

\* the default value of the parameter limit (line 660)
DEFAULT_LIMIT == 5

\* getTopTransactionsByRiskLevel (lines 657-667): what it returns, and the array
\* transactions after the call, which no statement writes to
getTopTransactionsByRiskLevel(transactions, riskLevel, limit) ==
  [returned |-> slice(sort(filterByRiskLevel(transactions, riskLevel)),
                      IF limit = Undefined THEN DEFAULT_LIMIT ELSE limit.i),
   transactions |-> transactions]

(* ------------------------------- TopSpec ------------------------------- *)
MaxTxs == 3
MaxLimit == 2
\* processed transactions of two risk levels and three probabilities
TopTransactions ==
  {[k \in {"risk_level", "fraud_probability"} |-> IF k = "risk_level" THEN l ELSE p] :
     l \in {High, Low}, p \in {Num(200), Num(700), Num(930)}}

TopInit ==
  /\ args \in [transactions : SeqsUpTo(TopTransactions, MaxTxs),
               riskLevel : RiskLevels,
               limit : {Whole(n) : n \in 0..MaxLimit} \cup {Undefined}]
  /\ result = <<>>
  /\ fnPc = "call"
  /\ NormIdle
  /\ CallIdle
  /\ CsvIdle

\* one call of getTopTransactionsByRiskLevel
Top ==
  /\ fnPc = "call"
  /\ result' = getTopTransactionsByRiskLevel(args.transactions, args.riskLevel, args.limit)
  /\ fnPc' = "done"
  /\ UNCHANGED <<args, normVars, callVars, csvVars>>

TopNext == Top
TopSpec == TopInit /\ [][TopNext]_vars

(* ----------------------------- EnhanceSpec ----------------------------- *)
\* the risk level and the default probability of each bucket (lines 492-504)
BucketDefaults ==
  { [riskLevel |-> High, defaultProb |-> Num(800)],
    [riskLevel |-> Medium, defaultProb |-> Num(500)],
    [riskLevel |-> Low, defaultProb |-> Num(200)] }

\* the fields an API record may carry, and the values each may have
ApiValues(k) ==
  CASE k = "id" -> {Undefined, Str(<<"T", "1">>), Str(<<"T", "9">>)}
    [] k = "merchant" -> {Undefined, Str(<<"A", "p", "i", "S", "h", "o", "p">>)}
    [] k = "amt" -> {Undefined, Num(99500), Str(<<"7">>)}
    [] k = "amount" -> {Undefined, Whole(50)}
    [] k = "date" -> {Undefined, Str(<<"2", "0", "2", "0", "-", "0", "1", "-", "0", "1">>)}
    [] k = "fraud_probability" -> {Undefined, Whole(0), Num(930), Whole(1)}
    [] k = "risk_level" -> {Undefined, Low}

\* the object that has the properties of choice that are not undefined
objectOf(choice) == [k \in {f \in DOMAIN choice : choice[f] # Undefined} |-> choice[k]]
ApiRecords ==
  {objectOf(choice) :
     choice \in [id : ApiValues("id"), merchant : ApiValues("merchant"), amt : ApiValues("amt"),
                 amount : ApiValues("amount"), date : ApiValues("date"),
                 fraud_probability : ApiValues("fraud_probability"),
                 risk_level : ApiValues("risk_level")]}

\* preprocessedData: no row, the typical row (id T1) or the minimal row, normalized
EnhanceRows ==
  {<<>>, <<normalize(TypicalRow, 0).row>>, <<normalize(MinimalRow, 0).row>>}

EnhanceInit ==
  /\ \E rows \in EnhanceRows, tx \in ApiRecords, bucket \in BucketDefaults :
       args = [rows |-> rows, tx |-> tx, riskLevel |-> bucket.riskLevel,
               defaultProb |-> bucket.defaultProb]
  /\ result = <<>>
  /\ fnPc = "call"
  /\ NormIdle
  /\ CallIdle
  /\ CsvIdle

\* one call of enhanceTransaction
Enhance ==
  /\ fnPc = "call"
  /\ \E rnd \in 0..(RndDen - 1) :
       result' = enhanceTransaction(args.rows, args.tx, args.riskLevel, args.defaultProb, rnd)
  /\ fnPc' = "done"
  /\ UNCHANGED <<args, normVars, callVars, csvVars>>

EnhanceNext == Enhance
EnhanceSpec == EnhanceInit /\ [][EnhanceNext]_vars

(* ------------------------------ BatchSpec ------------------------------ *)
MaxBatchRows == 3
MaxChunk == 3
\* raw rows: the typical one, two that make line 157 draw an id, and one whose
\* date is a number
BatchRows ==
  {TypicalRow, MinimalRow, EmptyRow, Put(EmptyRow, "trans_date_trans_time", Whole(2019))}

BatchInit ==
  /\ args \in [data : SeqsUpTo(BatchRows, MaxBatchRows), chunkSize : 1..MaxChunk]
  /\ result = <<>>
  /\ fnPc = "call"
  /\ NormIdle
  /\ CallIdle
  /\ CsvIdle

\* one call of preprocessCSV (lines 112-272) with CHUNK_SIZE = args.chunkSize:
\* what it returned or that it threw, the draws it was given, and the array
\* data after the call, which no statement writes to (line 144 copies each row)
Batch ==
  /\ fnPc = "call"
  /\ \E stream \in Streams :
       result' = [out |-> IF Len(args.data) = 0
                          THEN [threw |-> FALSE, rows |-> <<>>, cursor |-> 1]
                          ELSE preprocessBatches(args.data, args.chunkSize, 0, stream, 1),
                  stream |-> stream,
                  data |-> args.data]
  /\ fnPc' = "done"
  /\ UNCHANGED <<args, normVars, callVars, csvVars>>

BatchNext == Batch
BatchSpec == BatchInit /\ [][BatchNext]_vars

(* ===================== the claims about the call ======================= *)
processedTransactions == returned.processedTransactions

\* a number of the interval [0, 1]
InUnitInterval(v) ==
  v.t = "number" /\ ~v.neg /\ (v.i = 0 \/ (v.i = 1 /\ v.f = 0))

\* a transaction the page can render: a risk level and a probability
Renderable(tx) ==
  /\ Get(tx, "risk_level") \in RiskLevels
  /\ InUnitInterval(Get(tx, "fraud_probability"))

\* C1: processTransactions never rejects: whatever the parser and the service do,
\* the promise is never rejected, and once the call is over it is resolved with
\* a value that one of the return statements built.
C1_NeverRejects ==
  /\ outcome # "rejected"
  /\ pc = "done" => outcome = "resolved" /\ returned.line # 0
  /\ outcome = "resolved" => pc = "done"

\* C1 witness: the prediction failed and the call resolved with an error attached.
C1_Witness ==
  /\ pc = "done" /\ outcome = "resolved"
  /\ predicted.state = "rejected"
  /\ returned.error.present

\* a stage of the primary path failed: no file or a parser error (no prediction
\* was asked for), a rejected prediction, or a body the reconciler cannot read
StageFailed ==
  \/ predicted.state \in {"none", "rejected"}
  \/ predicted.state = "fulfilled" /\ predicted.value.kind = "null"

\* C2 (as claimed): whenever a stage failed, the result holds a non-empty list of
\* renderable fallback transactions together with an error, and the error is
\* absent exactly when no stage failed.
C2_FallbackOnEveryFailure ==
  pc = "done" =>
    /\ StageFailed =>
         /\ Len(processedTransactions) > 0
         /\ \A i \in 1..Len(processedTransactions) : Renderable(processedTransactions[i])
         /\ returned.error.present
    /\ ~returned.error.present <=> ~StageFailed

\* C3 (as claimed): every call eventually resolves.
C3_EventuallyResolves == <>(outcome = "resolved")

\* the number of transactions in the three buckets of the prediction returned
ApiCount ==
  IF predicted.state = "fulfilled" /\ predicted.value.kind = "object"
  THEN Len(bucketOf(predicted.value, "highRiskTransactions"))
       + Len(bucketOf(predicted.value, "mediumRiskTransactions"))
       + Len(bucketOf(predicted.value, "lowRiskTransactions"))
  ELSE 0

\* the sum of the counts calculateRiskDistribution returns
DistributionTotal(transactions) ==
  calculateRiskDistribution(transactions)[1].value
  + calculateRiskDistribution(transactions)[2].value
  + calculateRiskDistribution(transactions)[3].value

\* tx without the two fields the reconciler adds
WithoutRisk(tx) == [k \in (DOMAIN tx) \ {"fraud_probability", "risk_level"} |-> tx[k]]

\* txs holds every row of rows as often as rows does, and nothing else
OnePerRow(txs, rows) ==
  /\ Len(txs) = Len(rows)
  /\ \A i \in 1..Len(rows) :
       Cardinality({j \in 1..Len(txs) : WithoutRisk(txs[j]) = rows[i]})
         = Cardinality({j \in 1..Len(rows) : rows[j] = rows[i]})

\* a file of n >= 1 rows was parsed and the prediction was asked for
Uploaded == pc = "done" /\ Len(file.rows) >= 1 /\ predicted.state # "none"

\* C8 (as claimed): an upload of n rows yields n entries whatever the service
\* returns, and the counts of calculateRiskDistribution sum to n.
C8_AlwaysOnePerRow ==
  Uploaded =>
    /\ Len(processedTransactions) = Len(file.rows)
    /\ DistributionTotal(processedTransactions) = Len(file.rows)

\* C8 (amended): an upload of n rows yields one entry per uploaded row when the
\* prediction fails or returns three empty buckets, and one entry per returned
\* transaction when the buckets are populated; the counts of
\* calculateRiskDistribution sum to the number of entries.
C8_OnePerRowOrPerApiTx ==
  Uploaded =>
    /\ IF ApiCount > 0
       THEN Len(processedTransactions) = ApiCount
       ELSE /\ Len(processedTransactions) = Len(file.rows)
            /\ OnePerRow(processedTransactions, preprocessedData)
    /\ DistributionTotal(processedTransactions) = Len(processedTransactions)

\* C8 witness: two uploaded rows, empty buckets, and the simulation put one row in
\* the High bucket and the other in the Low bucket.
C8_Witness ==
  /\ Uploaded /\ Len(file.rows) = 2
  /\ predicted.state = "fulfilled" /\ ApiCount = 0 /\ returned.line = 561
  /\ processedTransactions[1]["risk_level"] = High
  /\ processedTransactions[2]["risk_level"] = Low

\* C9: the firing of the timer aborts the request and predictTransaction rejects
\* with the timeout message; no other rejection carries that message; and once
\* predictTransaction has settled its timer is no longer armed.
C9_TimeoutIsDistinct ==
  /\ timer = "fired" => predicted.state = "rejected" /\ predicted.message = TimeoutMessage
  /\ predicted.state = "rejected" /\ timer # "fired" => predicted.message # TimeoutMessage
  /\ predicted.state \in {"fulfilled", "rejected"} => timer # "armed"

\* C9 witness: the timer fired while the request was in flight.
C9_Witness ==
  /\ timer = "fired" /\ pc = "done"
  /\ predicted.message = TimeoutMessage
  /\ returned.line = 575

\* the body is JSON for an object that has the three risk-bucket lists
ExpectedStructure(body) ==
  body.json /\ body.data.kind = "object" /\ BucketNames \subseteq body.data.has

Answered2xx == pc = "done" /\ response.status \in 200..299

\* C10 (as claimed): a 2xx body without the expected structure makes
\* predictTransaction reject with the invalid-response error and is never
\* returned as a prediction.
C10_InvalidStructureRejected ==
  Answered2xx /\ ~ExpectedStructure(response.body) =>
    predicted.state = "rejected" /\ predicted.message = InvalidResponseMessage

\* C10 (amended): a 2xx body that is not JSON makes predictTransaction reject with
\* the invalid-response error, which no other failure produces; a body that is
\* JSON is returned as the prediction whatever its structure.
C10_OnlyJsonSyntaxChecked ==
  /\ Answered2xx =>
       IF response.body.json
       THEN predicted.state = "fulfilled" /\ predicted.value = response.body.data
       ELSE predicted.state = "rejected" /\ predicted.message = InvalidResponseMessage
  /\ predicted.message = InvalidResponseMessage =>
       response.status \in 200..299 /\ ~response.body.json

\* C10 witness: a 2xx response whose body is not JSON was rejected.
C10_Witness ==
  /\ Answered2xx /\ ~response.body.json
  /\ predicted.state = "rejected" /\ predicted.message = InvalidResponseMessage

(* =================== the claims about the normalizer =================== *)
Normalized == normPc = "done" /\ ~normOut.threw

\* the state code the claim expects: the row's state when it is a recognized
\* code, CA in every other case
ExpectedState(row) ==
  IF Truthy(Get(row, "state")) /\ Join(toUpperCase(String(row["state"]))) \in stateCodes
  THEN Join(toUpperCase(String(row["state"])))
  ELSE "CA"

\* C4 (as claimed): exactly the flag of the expected state is 1, the other
\* forty-nine are 0.
C4_OneStateFlag ==
  Normalized =>
    \A c \in stateCodes :
      Get(normOut.row, stateKey(c)) = IF c = ExpectedState(rawRow) THEN Whole(1) ELSE Whole(0)

\* the keyword groups in the order of the claim
KeywordGroups ==
  << {<<"g", "r", "o", "c", "e", "r", "y">>}, {<<"g", "a", "s">>, <<"t", "r", "a", "n", "s", "p", "o", "r", "t">>}, {<<"e", "n", "t", "e", "r", "t", "a", "i", "n">>}, {<<"m", "i", "s", "c">>}, {<<"h", "e", "a", "l", "t", "h">>},
     {<<"f", "o", "o", "d">>, <<"d", "i", "n", "i", "n", "g">>}, {<<"s", "h", "o", "p">>}, {<<"p", "e", "r", "s", "o", "n", "a", "l">>}, {<<"h", "o", "m", "e">>}, {<<"k", "i", "d", "s">>},
     {<<"t", "r", "a", "v", "e", "l">>}, {<<"s", "e", "r", "v", "i", "c", "e">>} >>

\* the group of the claim: the first one with a keyword that occurs in the raw
\* category, whatever its case; group 1 without a category or a match
ExpectedCategory(row) ==
  LET text == IF Truthy(Get(row, "category")) THEN toLowerCase(String(row["category"])) ELSE <<>>
      hits == {g \in 1..12 : \E kw \in KeywordGroups[g] : includes(text, kw)}
  IN  IF hits = {} THEN 1 ELSE CHOOSE g \in hits : \A h \in hits : g <= h

\* C5: exactly the flag of the expected keyword group is 1 and the other twelve
\* are 0, whatever category_N values the raw row carried.
C5_OneCategoryFlag ==
  Normalized =>
    \A n \in 1..13 :
      Get(normOut.row, categoryKey(n)) = IF n = ExpectedCategory(rawRow) THEN Whole(1) ELSE Whole(0)

\* C5 witness: a raw row that came with category_3 set and a category naming both
\* dining and gas got the flag of the gas group and no other.
C5_Witness ==
  /\ Normalized
  /\ Get(rawRow, "category_3") = Str(<<"1">>)
  /\ Get(rawRow, "category") = Str(<<"D", "i", "n", "i", "n", "g", "G", "A", "S">>)
  /\ normOut.row["category_2"] = Whole(1)
  /\ normOut.row["category_3"] = Whole(0)

\* C6 (as claimed): normalizing a row of strings and numbers never raises.
C6_NormalizeIsTotal == normPc = "done" => ~normOut.threw

\* the amount the claim expects: the float of the raw amt stripped of what is
\* not a digit or a dot; 0 when amt is absent, empty, zero or unparsable
ExpectedAmount(row) ==
  IF ~Truthy(Get(row, "amt")) THEN Whole(0)
  ELSE IF parseFloat(stripNonDigitsDots(String(row["amt"]))) = NaN THEN Whole(0)
  ELSE parseFloat(stripNonDigitsDots(String(row["amt"])))

\* C7 (as claimed): amt and amount are both present, equal, and the expected
\* non-negative number.
C7_AmountMirrored ==
  Normalized =>
    /\ {"amt", "amount"} \subseteq DOMAIN normOut.row
    /\ normOut.row["amt"] = normOut.row["amount"]
    /\ normOut.row["amt"] = ExpectedAmount(rawRow)
    /\ normOut.row["amt"].t = "number" /\ ~normOut.row["amt"].neg

(* ====================== the claim about the row cap ==================== *)
\* C11 (as claimed): processCSV never resolves with more than 100,000 rows,
\* however the parser splits the file into chunks.
C11_AtMostRowLimit == csvPc = "resolved" => resultsLength <= ROW_LIMIT

(* ================= the claim about the top transactions ================ *)
\* how often tx occurs in the array
Occurrences(array, tx) == Cardinality({i \in 1..Len(array) : array[i] = tx})

\* the limit of the call: the argument, or 5 when it is left out
RequestedLimit == IF args.limit = Undefined THEN 5 ELSE args.limit.i

\* C12: getTopTransactionsByRiskLevel returns at most limit items, as many as
\* the list has of the requested level up to that limit, each of them a
\* transaction of the list with the requested risk level, in non-increasing
\* order of fraud_probability; every transaction of that level left out has a
\* fraud_probability no greater than that of each returned item; and the input
\* list is left in its original order.
C12_TopByRiskLevel ==
  fnPc = "done" =>
    /\ Len(result.returned) <= RequestedLimit
    /\ \/ Len(result.returned) = RequestedLimit
       \/ Len(result.returned)
            = Cardinality({i \in 1..Len(args.transactions) :
                             args.transactions[i]["risk_level"] = args.riskLevel})
    /\ \A i \in 1..Len(result.returned) :
         /\ result.returned[i]["risk_level"] = args.riskLevel
         /\ Occurrences(result.returned, result.returned[i])
              <= Occurrences(args.transactions, result.returned[i])
    /\ \A i, j \in 1..Len(result.returned) :
         i < j => thousandths(result.returned[i]["fraud_probability"])
                    >= thousandths(result.returned[j]["fraud_probability"])
    /\ \A i \in 1..Len(args.transactions), j \in 1..Len(result.returned) :
         /\ args.transactions[i]["risk_level"] = args.riskLevel
         /\ Occurrences(result.returned, args.transactions[i])
              < Occurrences(args.transactions, args.transactions[i])
         => thousandths(args.transactions[i]["fraud_probability"])
              <= thousandths(result.returned[j]["fraud_probability"])
    /\ result.transactions = args.transactions

\* C12 witness: of three High transactions given in ascending order of
\* probability the two most probable are returned, the most probable first.
C12_Witness ==
  /\ fnPc = "done"
  /\ args.riskLevel = High /\ args.limit = Whole(2)
  /\ Len(args.transactions) = 3
  /\ args.transactions[1]["fraud_probability"] = Num(200)
  /\ args.transactions[2]["fraud_probability"] = Num(700)
  /\ args.transactions[3]["fraud_probability"] = Num(930)
  /\ \A i \in 1..3 : args.transactions[i]["risk_level"] = High
  /\ result.returned = <<args.transactions[3], args.transactions[2]>>

(* ================== the claims about the reconciler ==================== *)
\* the prediction succeeded with an object whose three buckets are empty
EmptyBuckets ==
  /\ pc = "done"
  /\ predicted.state = "fulfilled" /\ predicted.value.kind = "object"
  /\ ApiCount = 0

\* the distribution the response gives, all zero when it gives none
GivenDistribution ==
  IF "riskDistribution" \in predicted.value.has THEN predicted.value.riskDistribution
  ELSE [High |-> 0, Medium |-> 0, Low |-> 0]

\* the level of the draw rnd / RndDen under the cumulative thresholds
\* High / total and (High + Medium) / total, total being 1 for no mass
ThresholdLevel(dist, rnd) ==
  LET total == IF dist.High + dist.Medium + dist.Low = 0 THEN 1
               ELSE dist.High + dist.Medium + dist.Low
  IN  IF rnd * total < dist.High * RndDen THEN High
      ELSE IF rnd * total < (dist.High + dist.Medium) * RndDen THEN Medium
      ELSE Low

\* txs holds every row of rows once, with the level levelOf gives its index
ClassifiedBy(txs, rows, levelOf(_)) ==
  /\ Len(txs) = Len(rows)
  /\ \A i \in 1..Len(rows) :
       Cardinality({j \in 1..Len(txs) :
                      WithoutRisk(txs[j]) = rows[i] /\ txs[j]["risk_level"] = levelOf(i)})
         = Cardinality({j \in 1..Len(rows) : rows[j] = rows[i] /\ levelOf(j) = levelOf(i)})

\* C13: with three empty buckets every normalized row is classified exactly
\* once, by the level of its own draw under the cumulative thresholds of the
\* distribution (the row of index i takes the draw 2i - 1 of the call); a
\* distribution with all its mass on High makes every row High, and an absent
\* or all-zero distribution makes every row Low.
C13_SimulationByThresholds ==
  EmptyBuckets =>
    /\ \E stream \in Streams :
         LET levelOf(i) == ThresholdLevel(GivenDistribution, draw(stream, 2 * i - 1))
         IN  ClassifiedBy(processedTransactions, preprocessedData, levelOf)
    /\ (GivenDistribution.High > 0 /\ GivenDistribution.Medium = 0 /\ GivenDistribution.Low = 0)
         => \A i \in 1..Len(processedTransactions) :
              processedTransactions[i]["risk_level"] = High
    /\ (GivenDistribution.High = 0 /\ GivenDistribution.Medium = 0 /\ GivenDistribution.Low = 0)
         => \A i \in 1..Len(processedTransactions) :
              processedTransactions[i]["risk_level"] = Low

\* C13 witness: the distribution {High: 100, Medium: 0, Low: 0} came with empty
\* buckets and both uploaded rows were classified High.
C13_Witness ==
  /\ EmptyBuckets
  /\ "riskDistribution" \in predicted.value.has
  /\ predicted.value.riskDistribution = [High |-> 100, Medium |-> 0, Low |-> 0]
  /\ Len(preprocessedData) = 2 /\ Len(processedTransactions) = 2
  /\ \A i \in 1..2 : processedTransactions[i]["risk_level"] = High

(* ================= the claims about enhanceTransaction ================= *)
\* C14 (as claimed): the processed transaction has the risk level of its
\* bucket whatever the API record says, and the fraud_probability of the API
\* record whenever it carries one, the default of the bucket otherwise.
C14_ApiProbabilityKept ==
  fnPc = "done" =>
    /\ result["risk_level"] = args.riskLevel
    /\ result["fraud_probability"]
         = IF "fraud_probability" \in DOMAIN args.tx THEN args.tx["fraud_probability"]
           ELSE args.defaultProb

\* the normalized row of the id of the API record, <<>> when there is none
MergedRow ==
  IF \E i \in 1..Len(args.rows) : args.rows[i]["id"] = result["id"]
  THEN args.rows[CHOOSE i \in 1..Len(args.rows) : args.rows[i]["id"] = result["id"]]
  ELSE <<>>

\* the value of merchant, amount or date when neither record has the field
FixedDefault(k) ==
  CASE k = "merchant" -> Str(<<"U", "n", "k", "n", "o", "w", "n", " ", "M", "e", "r", "c", "h", "a", "n", "t">>)
    [] k = "amount" -> Whole(0)
    [] k = "date" -> Str(Clock.today)

\* C15 (as claimed): merged with the normalized row of the same id, every field
\* the API record provides keeps the API's value; merchant, amount and date come
\* from the normalized row, or are the fixed default, only when the API record
\* lacks them (the amount may then also be the API's amt); every other field of
\* the normalized row is carried over.
C15_ApiFieldsKept ==
  fnPc = "done" /\ MergedRow # <<>> =>
    /\ \A k \in (DOMAIN args.tx) \ {"risk_level", "fraud_probability"} :
         result[k] = args.tx[k]
    /\ \A k \in {"merchant", "amount", "date"} \ DOMAIN args.tx :
         \/ result[k] = IF k \in DOMAIN MergedRow THEN MergedRow[k] ELSE FixedDefault(k)
         \/ k = "amount" /\ "amt" \in DOMAIN args.tx /\ result[k] = args.tx["amt"]
    /\ \A k \in (DOMAIN MergedRow)
                \ (DOMAIN args.tx \cup {"merchant", "amount", "date", "risk_level", "fraud_probability"}) :
         result[k] = MergedRow[k]

(* ================ the claim about the order of the result ============== *)
\* the place of a risk level in the result: High, then Medium, then Low
Rank(level) == IF level = High THEN 1 ELSE IF level = Medium THEN 2 ELSE 3

\* the transactions of the result that have the level, in the order of the result
OfLevel(level) == SelectSeq(processedTransactions, LAMBDA tx : tx["risk_level"] = level)

\* s can be had from t by leaving elements out
RECURSIVE IsSubsequence(_, _)
IsSubsequence(s, t) ==
  IF s = <<>> THEN TRUE
  ELSE IF t = <<>> THEN FALSE
  ELSE IF s[1] = t[1] THEN IsSubsequence(Tail(s), Tail(t))
  ELSE IsSubsequence(s, Tail(t))

\* the processed transaction tx was made from the API record api: it has the
\* fields of the record other than the ones the reconciler computes, and an
\* id the reconciler drew exactly when the record names none
MadeFrom(tx, api) ==
  /\ \A k \in (DOMAIN api) \ {"risk_level", "fraud_probability", "amount"} : tx[k] = api[k]
  /\ ({"id", "trans_num", "cc_num"} \cap DOMAIN api = {})
       <=> startsWith(tx["id"].s, <<"T", "X", "-">>)

\* the result is the three buckets from High to Low, each in the order of the
\* API, or of the uploaded rows when the API returned no transaction
BucketOrderKept ==
  /\ \A i, j \in 1..Len(processedTransactions) :
       i < j => Rank(processedTransactions[i]["risk_level"])
                  <= Rank(processedTransactions[j]["risk_level"])
  /\ IF ApiCount > 0
     THEN /\ Len(OfLevel(High)) = Len(bucketOf(predicted.value, "highRiskTransactions"))
          /\ Len(OfLevel(Medium)) = Len(bucketOf(predicted.value, "mediumRiskTransactions"))
          /\ Len(OfLevel(Low)) = Len(bucketOf(predicted.value, "lowRiskTransactions"))
          /\ \A i \in 1..Len(OfLevel(High)) :
               MadeFrom(OfLevel(High)[i], bucketOf(predicted.value, "highRiskTransactions")[i])
          /\ \A i \in 1..Len(OfLevel(Medium)) :
               MadeFrom(OfLevel(Medium)[i], bucketOf(predicted.value, "mediumRiskTransactions")[i])
          /\ \A i \in 1..Len(OfLevel(Low)) :
               MadeFrom(OfLevel(Low)[i], bucketOf(predicted.value, "lowRiskTransactions")[i])
     ELSE \A level \in RiskLevels :
            IsSubsequence([i \in 1..Len(OfLevel(level)) |-> WithoutRisk(OfLevel(level)[i])],
                          preprocessedData)

\* C16 (as claimed): whenever the prediction call succeeds the result is the
\* buckets from High to Low, each in the order of the API or of the upload.
C16_OrderWheneverPredicted ==
  pc = "done" /\ predicted.state = "fulfilled" => BucketOrderKept

\* C16 (amended): whenever the prediction call succeeds and its body is
\* reconciled without error, the result is the buckets from High to Low, each
\* in the order of the API or of the upload, not sorted by probability; a body
\* that is null makes the reconciliation fail, and the result is then the
\* uploaded rows in the order of the upload, whatever their levels.
C16_OrderWhenReconciled ==
  /\ pc = "done" /\ predicted.state = "fulfilled" /\ ~returned.error.present => BucketOrderKept
  /\ pc = "done" /\ predicted.state = "fulfilled" /\ predicted.value.kind = "null" =>
       /\ returned.error.present
       /\ Len(processedTransactions) = Len(preprocessedData)
       /\ \A i \in 1..Len(preprocessedData) :
            WithoutRisk(processedTransactions[i]) = preprocessedData[i]
  /\ pc = "done" /\ predicted.state = "fulfilled" /\ predicted.value.kind = "object" =>
       ~returned.error.present

\* C16 witness: the API returned two High transactions, the less probable
\* first, and the result keeps them in that order.
C16_Witness ==
  /\ pc = "done" /\ predicted.state = "fulfilled" /\ ~returned.error.present
  /\ Len(bucketOf(predicted.value, "highRiskTransactions")) = 2
  /\ Len(processedTransactions) = 2
  /\ processedTransactions[1]["fraud_probability"] = Num(800)
  /\ processedTransactions[2]["fraud_probability"] = Num(930)

(* ====================== the claim about batching ======================= *)
\* the draw the row of index i is normalized with: one draw is taken for every
\* earlier row that has neither trans_num nor id
DrawOfRow(i) ==
  draw(result.stream, 1 + Cardinality({j \in 1..(i - 1) : needsId(args.data[j])}))

\* the call returned the rows of a single pass: as many as it was given, the
\* i-th the normalization of the i-th, and the input is as it was
SinglePassResult ==
  /\ Len(result.out.rows) = Len(args.data)
  /\ \A i \in 1..Len(args.data) :
       result.out.rows[i] = normalize(args.data[i], DrawOfRow(i)).row
  /\ result.data = args.data

\* C17 (as claimed): for every sequence of raw rows and every batch size
\* preprocessCSV returns the rows of a single pass.
C17_BatchingHasNoEffect ==
  fnPc = "done" => ~result.out.threw /\ SinglePassResult

\* C17 restricted to the sequences on which no row makes the normalizer raise:
\* preprocessCSV returns the rows of a single pass for every batch size.
C17_NoEffectWhenNoRowRaises ==
  (fnPc = "done" /\ \A i \in 1..Len(args.data) : ~dateThrows(args.data[i]))
    => ~result.out.threw /\ SinglePassResult
====
